---- MODULE Spec2Model ----
(***************************************************************************)
(* batch-fetch: a request-coalescing coordinator (src/src/index.ts).       *)
(* The file holds two variants of the coordinator: lines 1-205 (variant 1, *)
(* late joins bypass coalescing, 500 ms debounce) and lines 206-395        *)
(* (variant 2, late joins throw, 1000 ms debounce).  The variable          *)
(* `variant` selects which one a behaviour runs.                           *)
(***************************************************************************)
EXTENDS Integers, Sequences, FiniteSets, TLC

\* ---------------------------------------------------------------- bounds
MaxCalls == 3
TickMs == 250

\* ------------------------------------------------------- program constants
DebounceMs1 == 500
DebounceMs2 == 1000

\* ----------------------------------------------------------------- inputs
Urls == {"/a", "/b"}
Methods == {"GET"}
Variants == {1, 2}

VARIABLES
    variant,          \* which of the two source variants runs
    requestPayload,   \* batchId -> [url, options]
    requestCounter,   \* batchId -> [registered, aborted, processed]
    requestDebounce,  \* batchId -> timer id (kept after the timer fired)
    requestSignals,   \* batchId -> AbortController (the fetch it governs)
    timers,           \* pending setTimeout callbacks: id -> [batchId, delay, elapsed]
    callers,          \* one record per batchFetch call, in call order
    fetches,          \* one record per transport invocation, in call order
    sinceJoin,        \* signature -> ms since its most recent registration
    uncaught          \* TypeErrors thrown out of event listeners

vars == <<variant, requestPayload, requestCounter, requestDebounce,
          requestSignals, timers, callers, fetches, sinceJoin, uncaught>>

\* ------------------------------------------------------- Record<string, T>
Has(m, k) == k \in DOMAIN m
Put(m, k, v) == [x \in (DOMAIN m) \cup {k} |-> IF x = k THEN v ELSE m[x]]
Del(m, k) == [x \in (DOMAIN m) \ {k} |-> m[x]]
Empty == [x \in {} |-> 0]
Min(a, b) == IF a < b THEN a ELSE b

\* The four registry maps, the timer table and the listeners' effects are
\* threaded through the handlers as one record.
State(p, c, d, s, t, cs, fs, u) ==
    [requestPayload |-> p, requestCounter |-> c, requestDebounce |-> d,
     requestSignals |-> s, timers |-> t, callers |-> cs, fetches |-> fs,
     uncaught |-> u]

Cur == State(requestPayload, requestCounter, requestDebounce, requestSignals,
             timers, callers, fetches, uncaught)

Install(S) ==
    /\ requestPayload' = S.requestPayload
    /\ requestCounter' = S.requestCounter
    /\ requestDebounce' = S.requestDebounce
    /\ requestSignals' = S.requestSignals
    /\ timers' = S.timers
    /\ callers' = S.callers
    /\ fetches' = S.fetches
    /\ uncaught' = S.uncaught

\* ------------------------------------------------------------- signature
\* const { signal, ...otherOptions } = options
OtherOptions(options) == [method |-> options.method]

\* object-hash of { url, otherOptions }: a digest of the keys in sorted order
\* with their values, so it is equal exactly for structurally equal inputs.
Serialize(o) ==
    IF "signal" \in DOMAIN o
    THEN <<<<"method", o.method>>, <<"signal", o.signal>>>>
    ELSE <<<<"method", o.method>>>>

hash(obj) == <<<<"otherOptions", Serialize(obj.otherOptions)>>, <<"url", obj.url>>>>

BatchIdOfWithSignal(url, options) == hash([url |-> url, otherOptions |-> options])

BatchIdOf(url, options) ==
    hash([url |-> url, otherOptions |-> OtherOptions(options)])

DebounceMs(v) == IF v = 1 THEN DebounceMs1 ELSE DebounceMs2

\* --------------------------------------------------------------- registry
incrementRequestCounter(S, batchId, itemType) ==
    [S EXCEPT !.requestCounter[batchId][itemType] = @ + 1]

\* variant 2, line 365: the counter is assigned, not incremented
setAborted(S, batchId) ==
    [S EXCEPT !.requestCounter[batchId].aborted = 1]

countAborted(S, batchId) ==
    IF variant = 1
    THEN incrementRequestCounter(S, batchId, "aborted")
    ELSE setAborted(S, batchId)

isRequestCounterMax(S, batchId, itemType) ==
    IF ~Has(S.requestCounter, batchId) THEN FALSE
    ELSE IF S.requestCounter[batchId].registered = 0 THEN FALSE
    ELSE S.requestCounter[batchId].registered = S.requestCounter[batchId][itemType]

\* variant 2 compares the two counters inline (lines 327, 346, 369)
isCounterEqual(S, batchId, itemType) ==
    IF ~Has(S.requestCounter, batchId) THEN TRUE
    ELSE S.requestCounter[batchId][itemType] = S.requestCounter[batchId].registered

isMaxGreater(S, batchId, itemType) ==
    /\ Has(S.requestCounter, batchId)
    /\ S.requestCounter[batchId][itemType] > S.requestCounter[batchId].registered

isMax(S, batchId, itemType) ==
    IF variant = 1
    THEN isRequestCounterMax(S, batchId, itemType)
    ELSE isCounterEqual(S, batchId, itemType)

unegisterRequest(S, batchId) ==
    [S EXCEPT !.requestPayload = Del(@, batchId),
              !.requestCounter = Del(@, batchId),
              !.requestDebounce = Del(@, batchId),
              !.requestSignals = Del(@, batchId)]

clearTimeout(S, id) == [S EXCEPT !.timers = Del(@, id)]

setTimeout(S, id, batchId, delay) ==
    [S EXCEPT !.timers = Put(@, id, [batchId |-> batchId, delay |-> delay,
                                     elapsed |-> 0])]

debounceRequestNoClear(S, batchId, id) ==
    [setTimeout(S, id, batchId, DebounceMs(variant))
        EXCEPT !.requestDebounce = Put(@, batchId, id)]

debounceRequest(S, batchId, id) ==
    LET S1 == IF Has(S.requestDebounce, batchId)
              THEN clearTimeout(S, S.requestDebounce[batchId])
              ELSE S
    IN [setTimeout(S1, id, batchId, DebounceMs(variant))
        EXCEPT !.requestDebounce = Put(@, batchId, id)]

registerRequest(S, batchId, url, otherOptions, id) ==
    LET S1 == IF ~Has(S.requestPayload, batchId)
              THEN [S EXCEPT !.requestPayload =
                        Put(@, batchId, [url |-> url, options |-> otherOptions])]
              ELSE S
        S2 == IF ~Has(S1.requestCounter, batchId)
              THEN [S1 EXCEPT !.requestCounter =
                        Put(@, batchId, [registered |-> 0, aborted |-> 0,
                                         processed |-> 0])]
              ELSE S1
        S3 == incrementRequestCounter(S2, batchId, "registered")
    IN debounceRequest(S3, batchId, id)

\* ------------------------------------------------------------- dispatcher
\* A transport invocation.  kind "batch": issued by dispatchRequest under the
\* batch's AbortController; kind "direct": issued by batchFetch for a late
\* joiner with the caller's own options.  timer is the setTimeout callback
\* that issued it, caller the late joiner it belongs to.
Fetch(kind, batchId, url, options, timer, caller) ==
    [kind |-> kind, batchId |-> batchId, url |-> url, options |-> options,
     timer |-> timer, caller |-> caller, status |-> "inflight",
     bodyUsed |-> FALSE]

dispatchRequest(S, batchId, timer) ==
    LET ctrl == Len(S.fetches) + 1
        url == IF Has(S.requestPayload, batchId)
               THEN S.requestPayload[batchId].url ELSE ""
        options == IF Has(S.requestPayload, batchId)
                   THEN S.requestPayload[batchId].options
                   ELSE [method |-> "GET"]
    IN [S EXCEPT !.requestSignals = Put(@, batchId, ctrl),
                 !.fetches = Append(@, Fetch("batch", batchId, url,
                                             [method |-> options.method,
                                              signal |-> ctrl],
                                             timer, 0))]

\* AbortController.abort(): rejects the fetch it governs unless that fetch
\* has already completed.
abort(S, ctrl) ==
    IF S.fetches[ctrl].status = "inflight"
    THEN [S EXCEPT !.fetches[ctrl].status = "aborted"]
    ELSE S

\* ------------------------------------------------------ caller's promise
\* resolve / reject settle a promise once; later calls are ignored.
settle(S, c, status, from) ==
    IF S.callers[c].status = "pending"
    THEN [S EXCEPT !.callers[c].status = status, !.callers[c].from = from]
    ELSE S

throwTypeError(S) == [S EXCEPT !.uncaught = @ + 1]

\* resolve(value): body tells what the caller holds, the Response of the
\* transport call itself ("response") or a clone of its own ("clone").
resolveWith(S, c, f, body) ==
    IF S.callers[c].status = "pending"
    THEN [S EXCEPT !.callers[c].status = "resolved", !.callers[c].from = f,
                   !.callers[c].body = body]
    ELSE S

resolveShared(S, c, f) == resolveWith(S, c, f, "response")

\* resolve(response.clone()): clone() throws a TypeError once the body of
\* the response has been read.
resolveClone(S, c, f) ==
    IF S.fetches[f].bodyUsed THEN throwTypeError(S)
    ELSE resolveWith(S, c, f, "clone")

\* --------------------------------------------------------- the listeners
onBatchFetchThen(S, c, f) ==
    LET batchId == S.callers[c].batchId
        S1 == [S EXCEPT !.callers[c].thenL = FALSE]
    IN IF ~Has(S1.requestCounter, batchId) THEN throwTypeError(S1)
       ELSE LET S2 == incrementRequestCounter(S1, batchId, "processed")
                S3 == IF isMax(S2, batchId, "processed")
                      THEN unegisterRequest(S2, batchId) ELSE S2
            IN resolveClone(S3, c, f)

onBatchFetchCatch(S, c, f) ==
    LET batchId == S.callers[c].batchId
        S1 == [S EXCEPT !.callers[c].catchL = FALSE]
    IN IF ~Has(S1.requestCounter, batchId) THEN throwTypeError(S1)
       ELSE LET S2 == incrementRequestCounter(S1, batchId, "processed")
                S3 == IF isMax(S2, batchId, "processed")
                      THEN unegisterRequest(S2, batchId) ELSE S2
            IN settle(S3, c, "rejected", f)

\* the abort listener without requestSignals[batchId].abort()
onAbortNoSignalAbort(S, c) ==
    LET batchId == S.callers[c].batchId
        S1 == [S EXCEPT !.callers[c].thenL = FALSE,
                        !.callers[c].catchL = FALSE,
                        !.callers[c].abortL = FALSE]
    IN IF ~Has(S1.requestCounter, batchId) THEN throwTypeError(S1)
       ELSE LET S2 == countAborted(S1, batchId)
                S3 == IF Has(S2.requestDebounce, batchId)
                      THEN clearTimeout(S2, S2.requestDebounce[batchId]) ELSE S2
                S5 == IF isMax(S2, batchId, "aborted")
                      THEN unegisterRequest(S3, batchId) ELSE S2
            IN settle(S5, c, "cancelled", 0)

\* the abort listener without clearTimeout(requestDebounce[batchId])
onAbortNoClearTimeout(S, c) ==
    LET batchId == S.callers[c].batchId
        S1 == [S EXCEPT !.callers[c].thenL = FALSE,
                        !.callers[c].catchL = FALSE,
                        !.callers[c].abortL = FALSE]
    IN IF ~Has(S1.requestCounter, batchId) THEN throwTypeError(S1)
       ELSE LET S2 == countAborted(S1, batchId)
                S4 == IF Has(S2.requestSignals, batchId)
                      THEN abort(S2, S2.requestSignals[batchId]) ELSE S2
                S5 == IF isMax(S2, batchId, "aborted")
                      THEN unegisterRequest(S4, batchId) ELSE S2
            IN settle(S5, c, "cancelled", 0)

onAbort(S, c) ==
    LET batchId == S.callers[c].batchId
        S1 == [S EXCEPT !.callers[c].thenL = FALSE,
                        !.callers[c].catchL = FALSE,
                        !.callers[c].abortL = FALSE]
    IN IF ~Has(S1.requestCounter, batchId) THEN throwTypeError(S1)
       ELSE LET S2 == countAborted(S1, batchId)
                S3 == IF Has(S2.requestDebounce, batchId)
                      THEN clearTimeout(S2, S2.requestDebounce[batchId]) ELSE S2
                S4 == IF Has(S3.requestSignals, batchId)
                      THEN abort(S3, S3.requestSignals[batchId]) ELSE S3
                S5 == IF isMax(S2, batchId, "aborted")
                      THEN unegisterRequest(S4, batchId) ELSE S2
            IN \* signal.throwIfAborted() throws, the catch block rejects
               settle(S5, c, "cancelled", 0)

\* window.dispatchEvent: the listeners run in the order they were added.
RECURSIVE dispatchThenAll(_, _, _, _)
dispatchThenAll(S, batchId, f, c) ==
    IF c > Len(S.callers) THEN S
    ELSE IF S.callers[c].thenL
         THEN dispatchThenAll(onBatchFetchThen(S, c, f), batchId, f, c + 1)
         ELSE dispatchThenAll(S, batchId, f, c + 1)

RECURSIVE dispatchThen(_, _, _, _)
dispatchThen(S, batchId, f, c) ==
    IF c > Len(S.callers) THEN S
    ELSE IF S.callers[c].thenL /\ S.callers[c].batchId = batchId
         THEN dispatchThen(onBatchFetchThen(S, c, f), batchId, f, c + 1)
         ELSE dispatchThen(S, batchId, f, c + 1)

RECURSIVE dispatchCatch(_, _, _, _)
dispatchCatch(S, batchId, f, c) ==
    IF c > Len(S.callers) THEN S
    ELSE IF S.callers[c].catchL /\ S.callers[c].batchId = batchId
         THEN dispatchCatch(onBatchFetchCatch(S, c, f), batchId, f, c + 1)
         ELSE dispatchCatch(S, batchId, f, c + 1)

\* the .catch of dispatchRequest: an AbortError is not broadcast
onFetchRejectedNoFilter(S, batchId, f, errorName) ==
    dispatchCatch(S, batchId, f, 1)

onFetchRejected(S, batchId, f, errorName) ==
    IF errorName # "AbortError" THEN dispatchCatch(S, batchId, f, 1) ELSE S

\* ------------------------------------------------------------ batchFetch
\* The calls with one url and one options-without-signal.
SignatureOf(url, options) == <<url, options.method>>

SameSignature(S, c, url, options) ==
    SignatureOf(S.callers[c].url, S.callers[c].options) = SignatureOf(url, options)

TimerFired(S, t) == \E f \in 1..Len(S.fetches) : S.fetches[f].timer = t

\* The run of calls a call belongs to: it continues the run of the previous
\* call with its signature when that call armed a timer that has not fired.
GroupOf(S, url, options) ==
    LET prev == {c \in 1..Len(S.callers) : SameSignature(S, c, url, options)}
        p == CHOOSE c \in prev : \A d \in prev : d <= c
    IN IF prev # {} /\ S.callers[p].kind = "join" /\ ~TimerFired(S, p)
       THEN S.callers[p].grp
       ELSE Len(S.callers) + 1

\* The batch a call joins: the batch of the live registry entry (the one the
\* latest joiner of that batchId joined), or a new batch named after the call.
BatchOf(S, batchId) ==
    LET prev == {c \in 1..Len(S.callers) :
                    S.callers[c].kind = "join" /\ S.callers[c].batchId = batchId}
        p == CHOOSE c \in prev : \A d \in prev : d <= c
    IN IF Has(S.requestCounter, batchId) /\ prev # {}
       THEN S.callers[p].batch
       ELSE Len(S.callers) + 1

Caller(S, kind, batchId, url, options) ==
    [kind |-> kind, batchId |-> batchId, url |-> url, options |-> options,
     thenL |-> kind = "join", catchL |-> kind = "join",
     abortL |-> kind # "threw" /\ options.signal # 0,
     status |-> IF kind = "threw" THEN "threw" ELSE "pending",
     from |-> 0, body |-> "none", read |-> FALSE,
     grp |-> GroupOf(S, url, options),
     batch |-> IF kind = "join" THEN BatchOf(S, batchId) ELSE 0]

join(S, batchId, url, options) ==
    LET n == Len(S.callers) + 1
        S1 == registerRequest(S, batchId, url, OtherOptions(options), n)
    IN [S1 EXCEPT !.callers = Append(@, Caller(S, "join", batchId, url, options))]

\* variant 1, lines 111-203
batchFetch1NoBypass(S, url, options) ==
    join(S, BatchIdOf(url, options), url, options)

batchFetch1(S, url, options) ==
    LET batchId == BatchIdOf(url, options)
        n == Len(S.callers) + 1
    IN IF Has(S.requestSignals, batchId)
       THEN [S EXCEPT !.fetches = Append(@, Fetch("direct", batchId, url, options, 0, n)),
                      !.callers = Append(@, Caller(S, "bypass", batchId, url, options))]
       ELSE join(S, batchId, url, options)

\* variant 2, lines 269-393: registerRequest throws out of batchFetch
batchFetch2NoThrow(S, url, options) ==
    join(S, BatchIdOf(url, options), url, options)

batchFetch2(S, url, options) ==
    LET batchId == BatchIdOf(url, options)
    IN IF Has(S.requestSignals, batchId)
       THEN [S EXCEPT !.callers = Append(@, Caller(S, "threw", batchId, url, options))]
       ELSE join(S, batchId, url, options)

batchFetch(S, url, options) ==
    IF variant = 1 THEN batchFetch1(S, url, options)
    ELSE batchFetch2(S, url, options)

\* ---------------------------------------------------------------- actions
Init ==
    /\ variant \in Variants
    /\ requestPayload = Empty
    /\ requestCounter = Empty
    /\ requestDebounce = Empty
    /\ requestSignals = Empty
    /\ timers = Empty
    /\ callers = <<>>
    /\ fetches = <<>>
    /\ sinceJoin = Empty
    /\ uncaught = 0

\* a caller calls batchFetch(url, options), with a signal of its own or none
BatchFetch(url, method, withSignal) ==
    LET n == Len(callers) + 1
        options == [method |-> method, signal |-> IF withSignal THEN n ELSE 0]
        S == batchFetch(Cur, url, options)
    IN /\ n <= MaxCalls
       /\ Install(S)
       /\ sinceJoin' = IF S.callers[n].kind = "join"
                       THEN Put(sinceJoin, S.callers[n].batchId, 0)
                       ELSE sinceJoin
       /\ UNCHANGED variant

\* time passes
Tick ==
    /\ \/ \E t \in DOMAIN timers : timers[t].elapsed < timers[t].delay
       \/ \E b \in DOMAIN sinceJoin : sinceJoin[b] < DebounceMs(variant)
    /\ timers' = [t \in DOMAIN timers |->
                    [timers[t] EXCEPT !.elapsed = Min(@ + TickMs, timers[t].delay)]]
    /\ sinceJoin' = [b \in DOMAIN sinceJoin |->
                       Min(sinceJoin[b] + TickMs, DebounceMs(variant))]
    /\ UNCHANGED <<variant, requestPayload, requestCounter, requestDebounce,
                   requestSignals, callers, fetches, uncaught>>

\* a setTimeout callback of debounceRequest runs
TimerFire(t) ==
    /\ t \in DOMAIN timers
    /\ timers[t].elapsed >= timers[t].delay
    /\ Install(dispatchRequest(clearTimeout(Cur, t), timers[t].batchId, t))
    /\ UNCHANGED <<variant, sinceJoin>>

\* the batch's fetch resolves: the .then of dispatchRequest
FetchThen(f) ==
    /\ f \in 1..Len(fetches)
    /\ fetches[f].kind = "batch" /\ fetches[f].status = "inflight"
    /\ Install(dispatchThen([Cur EXCEPT !.fetches[f].status = "ok"],
                            fetches[f].batchId, f, 1))
    /\ UNCHANGED <<variant, sinceJoin>>

\* the batch's fetch rejects with a network error: the .catch of dispatchRequest
FetchCatch(f) ==
    /\ f \in 1..Len(fetches)
    /\ fetches[f].kind = "batch" /\ fetches[f].status = "inflight"
    /\ Install(onFetchRejected([Cur EXCEPT !.fetches[f].status = "err"],
                               fetches[f].batchId, f, "TypeError"))
    /\ UNCHANGED <<variant, sinceJoin>>

\* the batch's fetch, aborted through its AbortController, rejects
FetchAborted(f) ==
    /\ f \in 1..Len(fetches)
    /\ fetches[f].kind = "batch" /\ fetches[f].status = "aborted"
    /\ Install(onFetchRejected([Cur EXCEPT !.fetches[f].status = "abortError"],
                               fetches[f].batchId, f, "AbortError"))
    /\ UNCHANGED <<variant, sinceJoin>>

\* a late joiner's own fetch completes: batchFetch returned its promise
DirectDone(f, status) ==
    /\ f \in 1..Len(fetches)
    /\ fetches[f].kind = "direct" /\ fetches[f].status = "inflight"
    /\ LET S == [Cur EXCEPT !.fetches[f].status = status,
                            !.callers[fetches[f].caller].abortL = FALSE]
       IN Install(IF status = "ok"
                  THEN resolveWith(S, fetches[f].caller, f, "response")
                  ELSE settle(S, fetches[f].caller, "rejected", f))
    /\ UNCHANGED <<variant, sinceJoin>>

\* the caller aborts the signal it passed in
Abort(c) ==
    /\ c \in 1..Len(callers)
    /\ callers[c].abortL
    /\ IF callers[c].kind = "join"
       THEN Install(onAbort(Cur, c))
       ELSE LET f == CHOOSE g \in 1..Len(fetches) : fetches[g].caller = c
            IN Install([settle(abort(Cur, f), c, "cancelled", 0)
                           EXCEPT !.callers[c].abortL = FALSE])
    /\ UNCHANGED <<variant, sinceJoin>>

\* a resolved caller reads the body of the Response it was given
Consume(c) ==
    /\ c \in 1..Len(callers)
    /\ callers[c].status = "resolved" /\ ~callers[c].read
    /\ IF callers[c].body = "clone"
       THEN Install([Cur EXCEPT !.callers[c].read = TRUE])
       ELSE /\ ~fetches[callers[c].from].bodyUsed
            /\ Install([Cur EXCEPT !.callers[c].read = TRUE,
                                   !.fetches[callers[c].from].bodyUsed = TRUE])
    /\ UNCHANGED <<variant, sinceJoin>>

Step(urls) ==
    \/ \E url \in urls, method \in Methods, withSignal \in BOOLEAN :
          BatchFetch(url, method, withSignal)
    \/ Tick
    \/ \E t \in DOMAIN timers : TimerFire(t)
    \/ \E f \in 1..Len(fetches) : FetchThen(f)
    \/ \E f \in 1..Len(fetches) : FetchCatch(f)
    \/ \E f \in 1..Len(fetches) : FetchAborted(f)
    \/ \E f \in 1..Len(fetches), status \in {"ok", "err"} : DirectDone(f, status)
    \/ \E c \in 1..Len(callers) : Abort(c)
    \/ \E c \in 1..Len(callers) : Consume(c)

\* every call has one signature
Next == Step({"/a"})

Spec == Init /\ [][Next]_vars

\* calls with two signatures
NextTwo == Step(Urls)

SpecTwo == Init /\ [][NextTwo]_vars

\* ------------------------------------------------------ claim vocabulary
Callers == 1..Len(callers)
Fetches == 1..Len(fetches)
Joiners == {c \in Callers : callers[c].kind = "join"}
BatchFetches == {f \in Fetches : fetches[f].kind = "batch"}
\* the callers coalesced onto one registry entry
Members(e) == {c \in Joiners : callers[c].batch = e}
Batches == {callers[c].batch : c \in Joiners}
\* the batch whose timer issued a fetch, and the run of calls it serves
FetchBatch(f) == callers[fetches[f].timer].batch
FetchGroup(f) ==
    IF fetches[f].kind = "batch" THEN callers[fetches[f].timer].grp
    ELSE callers[fetches[f].caller].grp
Run(g) == {c \in Callers : callers[c].grp = g}
FetchesOf(g) == {f \in Fetches : FetchGroup(f) = g}
HasSignal(c) == callers[c].options.signal # 0
\* the caller's signal has fired
HasCancelled(c) == HasSignal(c) /\ ~callers[c].abortL
Settled(c) == callers[c].status # "pending"
Live(batchId) ==
    \/ Has(requestPayload, batchId) \/ Has(requestCounter, batchId)
    \/ Has(requestDebounce, batchId) \/ Has(requestSignals, batchId)
\* the batch of the live registry entry of a batchId
LiveBatch(batchId) == BatchOf(Cur, batchId)
IsLive(e) ==
    \E c \in Members(e) :
        Has(requestCounter, callers[c].batchId) /\ LiveBatch(callers[c].batchId) = e

\* ------------------------------------------------------------------ C1
\* C1 (coalescing): the calls of one run (same url and options-without-signal,
\* each arriving before the timer armed by the previous one has fired) get
\* at most one transport invocation, and exactly one once a timer of the run
\* has fired, whichever of them carry a signal, in both variants.
C1_Coalescing ==
    \A c \in Callers :
        LET g == callers[c].grp
        IN /\ Cardinality(FetchesOf(g)) <= 1
           /\ (\E d \in Run(g) : TimerFired(Cur, d)) => Cardinality(FetchesOf(g)) = 1

C1_Witness ==
    \E f \in BatchFetches :
        /\ Cardinality(Run(FetchGroup(f))) >= 2
        /\ \E c, d \in Run(FetchGroup(f)) : HasSignal(c) /\ ~HasSignal(d)

\* ------------------------------------------------------------------ C2
\* C2 (fan-out completeness): once the transport call of a batch has
\* completed with a response or a network error, every caller that joined
\* that batch and has not cancelled is settled with that outcome.
C2_FanOut ==
    \A f \in BatchFetches :
        fetches[f].status \in {"ok", "err"} =>
            \A c \in Members(FetchBatch(f)) :
                \/ callers[c].status = "cancelled"
                \/ HasCancelled(c)
                \/ /\ callers[c].from = f
                   /\ callers[c].status =
                        (IF fetches[f].status = "ok" THEN "resolved" ELSE "rejected")

\* ------------------------------------------------------------------ C3
\* C3 (retirement and reuse): a call whose signature has no unsettled
\* caller left is the first joiner of a new batch: it is registered with a
\* fresh counter (registered = 1, nothing aborted or processed), arms a new
\* timer, and neither bypasses coalescing nor throws.
C3_Reuse ==
    [][(/\ Len(callers') = Len(callers) + 1
        /\ \A c \in Callers :
              SameSignature(Cur, c, callers'[Len(callers')].url,
                            callers'[Len(callers')].options) => Settled(c))
       => LET n == Len(callers')
              new == callers'[n]
          IN /\ new.kind = "join"
             /\ new.batch = n
             /\ requestCounter'[new.batchId] =
                    [registered |-> 1, aborted |-> 0, processed |-> 0]
             /\ Has(timers', n) /\ timers'[n].elapsed = 0
             /\ requestDebounce'[new.batchId] = n
             /\ ~Has(requestSignals', new.batchId)]_vars

\* ------------------------------------------------------------------ C4
\* C4 (no registry leak): when every caller that joined a batch is settled,
\* no timer of the batch is pending and its transport call, if started, is
\* over, the batch has no entry left in any of the four registry maps.
TimerPending(e) == \E t \in DOMAIN timers : callers[t].batch = e
TransportRunning(e) ==
    \E f \in BatchFetches :
        FetchBatch(f) = e /\ fetches[f].status \in {"inflight", "aborted"}

C4_NoLeak ==
    \A e \in Batches :
        (/\ \A c \in Members(e) : Settled(c)
         /\ ~TimerPending(e)
         /\ ~TransportRunning(e))
        => \A c \in Members(e) :
              Live(callers[c].batchId) => LiveBatch(callers[c].batchId) # e

\* ------------------------------------------------------------------ C5
\* C5 (partial cancellation): when a caller of a live batch with two or more
\* joined callers cancels while another caller of that batch has not
\* cancelled, the step clears no timer, aborts no transport call and leaves
\* the registry entry in place; and a caller whose signal has not fired is
\* never rejected with a cancellation error.
Cancels(c) ==
    /\ c \in Joiners
    /\ callers[c].abortL /\ ~callers'[c].abortL

C5_PartialCancel ==
    [][\A c \in Callers :
        LET batchId == callers[c].batchId
            e == callers[c].batch
        IN (/\ Cancels(c)
            /\ Has(requestCounter, batchId) /\ LiveBatch(batchId) = e
            /\ requestCounter[batchId].registered >= 2
            /\ \E d \in Members(e) \ {c} : ~HasCancelled(d))
           => /\ timers' = timers
              /\ fetches' = fetches
              /\ Has(requestCounter', batchId) /\ Has(requestPayload', batchId)
              /\ \A d \in Members(e) \ {c} :
                    ~HasCancelled(d) => callers'[d].status # "cancelled"]_vars

\* ------------------------------------------------------------------ C6
\* C6 (full cancellation before dispatch): when every caller that joined a
\* batch has cancelled and no transport call has been made for the batch,
\* the batch has no pending timer and no registry entry (so no transport
\* call is made for it later either), in both variants.
FetchesOfBatch(e) == {f \in BatchFetches : FetchBatch(f) = e}

C6_CancelBeforeDispatch ==
    \A e \in Batches :
        (/\ \A c \in Members(e) : callers[c].status = "cancelled"
         /\ FetchesOfBatch(e) = {})
        => /\ ~TimerPending(e)
           /\ ~IsLive(e)

\* ------------------------------------------------------------------ C7
\* C7 (full cancellation after dispatch): when every caller that joined a
\* batch has cancelled, the transport call of the batch is not left in
\* flight (its AbortController has been aborted) and the batch has no
\* registry entry, in both variants.
C7_CancelAfterDispatch ==
    \A f \in BatchFetches :
        (\A c \in Members(FetchBatch(f)) : callers[c].status = "cancelled")
        => /\ fetches[f].status # "inflight"
           /\ ~IsLive(FetchBatch(f))

\* ------------------------------------------------------------------ C8
\* C8 (escalated cancellation is swallowed): the step in which an aborted
\* transport call rejects with its AbortError broadcasts nothing: it runs
\* no listener, settles no caller, changes no counter and removes no entry,
\* also when a later batch of the same signature is pending.
AbortRejects(f) ==
    /\ f \in BatchFetches
    /\ fetches[f].status = "aborted" /\ fetches'[f].status = "abortError"

C8_AbortSwallowed ==
    [][\A f \in Fetches :
        AbortRejects(f) =>
            /\ callers' = callers
            /\ uncaught' = uncaught
            /\ UNCHANGED <<requestPayload, requestCounter, requestDebounce,
                           requestSignals, timers>>]_vars

C8_Witness ==
    \E f \in BatchFetches :
        /\ fetches[f].status = "abortError"
        /\ \E c \in Joiners :
              /\ callers[c].batchId = fetches[f].batchId
              /\ callers[c].batch # FetchBatch(f)
              /\ callers[c].catchL /\ callers[c].status = "pending"
              /\ Has(requestCounter, callers[c].batchId)

\* ------------------------------------------------------------------ C9
\* C9 (debounce re-arming): every join leaves its batchId with exactly one
\* pending timer, newly started with the full debounce delay; the dispatcher
\* runs for a batch only from the timer of its latest join, when the full
\* delay has passed since that join, and it runs once per expiry and never
\* twice for one batch.
Joins(n) ==
    /\ Len(callers') = Len(callers) + 1 /\ n = Len(callers')
    /\ callers'[n].kind = "join"
Dispatches(t) ==
    /\ Len(fetches') = Len(fetches) + 1
    /\ fetches'[Len(fetches')].kind = "batch"
    /\ fetches'[Len(fetches')].timer = t

C9_Debounce ==
    /\ [][\A n \in 1..MaxCalls :
            Joins(n) =>
                /\ {t \in DOMAIN timers' :
                       timers'[t].batchId = callers'[n].batchId} = {n}
                /\ timers'[n].elapsed = 0
                /\ timers'[n].delay = DebounceMs(variant)]_vars
    /\ [][\A t \in DOMAIN timers :
            Dispatches(t) =>
                /\ sinceJoin[timers[t].batchId] >= DebounceMs(variant)
                /\ \A c \in Joiners :
                      callers[c].batchId = timers[t].batchId => c <= t]_vars
    /\ [](\A e \in Batches : Cardinality(FetchesOfBatch(e)) <= 1)

C9_Witness ==
    \E f \in BatchFetches :
        /\ fetches[f].timer = 2
        /\ callers[2].batch = 1
        /\ sinceJoin[fetches[f].batchId] = DebounceMs(variant)

\* ----------------------------------------------------------------- C10
\* C10 (late join, variant 1): a call that arrives while requestSignals holds
\* its batchId makes a transport call of its own with its own url and options
\* (signal included) and changes nothing of the pending batch: the four
\* registry maps, the timers, the listeners and promises of the earlier
\* callers and the earlier transport calls stay as they are; the caller has
\* no listener and is settled by its own transport call only.
LateCall ==
    /\ variant = 1
    /\ Len(callers') = Len(callers) + 1
    /\ Has(requestSignals, BatchIdOf(callers'[Len(callers')].url,
                                     callers'[Len(callers')].options))

C10_LateJoinBypass ==
    /\ [][LateCall =>
            LET n == Len(callers')
                new == callers'[n]
            IN /\ UNCHANGED <<requestPayload, requestCounter, requestDebounce,
                              requestSignals, timers, uncaught>>
               /\ SubSeq(callers', 1, Len(callers)) = callers
               /\ ~new.thenL /\ ~new.catchL
               /\ fetches' = Append(fetches,
                      Fetch("direct", new.batchId, new.url, new.options, 0, n))]_vars
    /\ [](\A c \in Callers :
            (variant = 1 /\ callers[c].kind = "bypass" /\ callers[c].status # "pending")
            => \E f \in Fetches :
                  /\ fetches[f].caller = c
                  /\ callers[c].status =
                        (CASE fetches[f].status = "ok" -> "resolved"
                           [] fetches[f].status = "err" -> "rejected"
                           [] OTHER -> "cancelled"))

C10_Witness ==
    \E c \in Callers :
        /\ variant = 1
        /\ callers[c].kind = "bypass" /\ callers[c].status = "resolved"
        /\ Has(requestCounter, callers[c].batchId)
        /\ requestCounter[callers[c].batchId].processed = 0

\* ----------------------------------------------------------------- C11
\* C11 (isolation): calls with different signatures are in different
\* batches, each batch's transport call carries the url and options of its
\* own callers only, and every step is an event of at most one batchId and
\* leaves everything kept for any other batchId as it was: payload, counters,
\* timer, AbortController, transport calls, and the callers' listeners and
\* promises.
BatchIds == {callers[c].batchId : c \in Callers}

\* what the module keeps for one batchId (a timer without its clock)
RegistryOf(b, p, k, d, s) ==
    <<IF Has(p, b) THEN <<p[b]>> ELSE <<>>,
      IF Has(k, b) THEN <<k[b]>> ELSE <<>>,
      IF Has(d, b) THEN <<d[b]>> ELSE <<>>,
      IF Has(s, b) THEN <<s[b]>> ELSE <<>> >>
TimersOf(b, t) == {<<i, t[i].delay>> : i \in {j \in DOMAIN t : t[j].batchId = b}}
CallersOf(b, cs) == {<<c, cs[c]>> : c \in {d \in 1..Len(cs) : cs[d].batchId = b}}
FetchesFor(b, fs) == {<<f, fs[f]>> : f \in {g \in 1..Len(fs) : fs[g].batchId = b}}

Untouched(b) ==
    /\ RegistryOf(b, requestPayload', requestCounter', requestDebounce', requestSignals')
         = RegistryOf(b, requestPayload, requestCounter, requestDebounce, requestSignals)
    /\ TimersOf(b, timers') = TimersOf(b, timers)
    /\ CallersOf(b, callers') = CallersOf(b, callers)
    /\ FetchesFor(b, fetches') = FetchesFor(b, fetches)

\* the batchIds a step is an event of: a call, a timer firing, a transport
\* call completing, a signal firing
EventOf ==
    {callers'[c].batchId : c \in (1..Len(callers')) \ Callers}
    \cup {timers[t].batchId : t \in (DOMAIN timers) \ (DOMAIN timers')}
    \cup {fetches[f].batchId : f \in {g \in Fetches : fetches'[g] # fetches[g]}}
    \cup {callers[c].batchId : c \in {d \in Callers : callers'[d] # callers[d]}}

C11_Isolation ==
    /\ [][/\ Cardinality(EventOf) <= 1
          /\ \A b \in BatchIds \cup EventOf : b \notin EventOf => Untouched(b)]_vars
    /\ [](\A c, d \in Joiners :
            callers[c].batchId # callers[d].batchId => callers[c].batch # callers[d].batch)
    /\ [](\A f \in BatchFetches : \A c \in Members(FetchBatch(f)) :
            /\ fetches[f].batchId = callers[c].batchId
            /\ fetches[f].url = callers[c].url
            /\ fetches[f].options.method = callers[c].options.method)

C11_Witness ==
    \E f, g \in BatchFetches :
        /\ fetches[f].batchId # fetches[g].batchId
        /\ fetches[f].status = "ok" /\ fetches[g].status = "err"
        /\ \E c \in Members(FetchBatch(f)) : callers[c].status = "resolved"
        /\ \E c \in Members(FetchBatch(g)) : callers[c].status = "rejected"

\* ----------------------------------------------------------------- C12
\* C12 (independent consumption): the callers coalesced on one successful
\* transport call each hold a clone of the response; the clones are all
\* made while no body of that response has been read; and a caller that has
\* not read its result can still read it, whatever the other callers have
\* read.  A caller reading its result changes nothing of any other caller.
Available(c) ==
    IF callers[c].body = "clone" THEN ~callers[c].read
    ELSE ~fetches[callers[c].from].bodyUsed
ResolvedBy(f) == {c \in Joiners : callers[c].status = "resolved" /\ callers[c].from = f}
Reads(c) == c \in Callers /\ ~callers[c].read /\ callers'[c].read

C12_IndependentConsumption ==
    /\ [](\A f \in BatchFetches : \A c \in ResolvedBy(f) :
            /\ callers[c].body = "clone"
            /\ ~fetches[f].bodyUsed
            /\ ~callers[c].read => Available(c))
    /\ [][\A f \in BatchFetches :
            (fetches[f].status = "inflight" /\ fetches'[f].status = "ok")
            => \A c \in Joiners :
                 (callers'[c].status = "resolved" /\ callers'[c].from = f)
                 => ~callers'[c].read /\ ~fetches'[f].bodyUsed]_vars
    /\ [][\A c \in Joiners :
            Reads(c) => /\ \A d \in Callers \ {c} : callers'[d] = callers[d]
                        /\ fetches' = fetches]_vars

C12_Witness ==
    \E f \in BatchFetches : \E c, d \in ResolvedBy(f) :
        c # d /\ callers[c].read /\ callers[d].read

\* ----------------------------------------------------------------- C13
\* C13 (terminal states): when the signal of a caller that a broadcast has
\* already settled fires, nothing changes: no counter, timer, registry
\* entry or transport call, no other caller, the caller's own outcome, and
\* no error is raised.
SettledByBroadcast(c) == c \in Joiners /\ callers[c].status \in {"resolved", "rejected"}

C13_TerminalStates ==
    [][\A c \in Joiners :
        (Cancels(c) /\ SettledByBroadcast(c))
        => /\ UNCHANGED <<requestPayload, requestCounter, requestDebounce,
                          requestSignals, timers, fetches, uncaught>>
           /\ \A d \in Callers \ {c} : callers'[d] = callers[d]
           /\ callers'[c].status = callers[c].status]_vars

\* ----------------------------------------------------------------- C14
\* C14 (delivery once, within the batch): the listeners a broadcast runs
\* belong to callers of the batch whose transport call completed, each still
\* awaiting its outcome; so the processed counter of a live batch counts the
\* callers of that batch a broadcast has settled, once each.
Broadcasts(f) ==
    /\ f \in BatchFetches
    /\ fetches[f].status = "inflight" /\ fetches'[f].status \in {"ok", "err"}

C14_DeliveryOnce ==
    /\ [][\A f \in Fetches :
            Broadcasts(f) =>
                \A c \in Callers :
                    callers'[c] # callers[c]
                    => c \in Members(FetchBatch(f)) /\ callers[c].status = "pending"]_vars
    /\ [](\A b \in DOMAIN requestCounter :
            requestCounter[b].processed =
                Cardinality({c \in Members(LiveBatch(b)) : SettledByBroadcast(c)}))

\* ----------------------------------------------------------------- C15
\* C15 (cancellation count): the aborted counter of a live batch is the
\* number of callers of that batch whose signal has fired, in both variants.
C15_AbortedCount ==
    \A b \in DOMAIN requestCounter :
        requestCounter[b].aborted =
            Cardinality({c \in Members(LiveBatch(b)) : HasCancelled(c)})

\* ----------------------------------------------------------------- C16
\* C16 as claimed (registry absence): a batchId with no registry entry has no
\* pending timer and no transport call in flight for its url and options,
\* the transport calls of late joiners included.
InFlight(f) == fetches[f].status = "inflight"

C16_AbsenceAnyTransport ==
    \A b \in BatchIds :
        ~Live(b) =>
            /\ \A t \in DOMAIN timers : timers[t].batchId # b
            /\ \A f \in Fetches : fetches[f].batchId = b => ~InFlight(f)

\* C16 as amended: a batchId with no registry entry has no pending timer and
\* no transport call of the dispatcher in flight; only transport calls made
\* for late joiners (variant 1) can outlive the entry.
C16_AbsenceBatchTransport ==
    \A b \in BatchIds :
        ~Live(b) =>
            /\ \A t \in DOMAIN timers : timers[t].batchId # b
            /\ \A f \in BatchFetches : fetches[f].batchId = b => ~InFlight(f)

C16_Witness ==
    \E f \in Fetches :
        /\ fetches[f].kind = "direct" /\ InFlight(f)
        /\ ~Live(fetches[f].batchId)

\* ----------------------------------------------------------------- C17
\* C17 (single dispatch per batch): the dispatcher runs only for a registry
\* entry that has no AbortController yet; the AbortController of an entry is
\* never replaced; and no batch gets a second transport call.
C17_SingleDispatch ==
    /\ [][\A t \in DOMAIN timers :
            Dispatches(t) => ~Has(requestSignals, timers[t].batchId)]_vars
    /\ [][\A b \in DOMAIN requestSignals :
            Has(requestSignals', b) => requestSignals'[b] = requestSignals[b]]_vars
    /\ [](\A f, g \in BatchFetches : FetchBatch(f) = FetchBatch(g) => f = g)

C17_Witness ==
    \E f \in BatchFetches :
        /\ Has(requestSignals, fetches[f].batchId)
        /\ requestSignals[fetches[f].batchId] = f
        /\ \E c \in Callers : c > fetches[f].timer /\ callers[c].batchId = fetches[f].batchId

\* ----------------------------------------------------------------- C18
\* C18 (late join, variant 2): a call that arrives while requestSignals holds
\* its batchId throws 'Request already dispatched' and changes nothing: the
\* four registry maps, the timers, the transport calls and the earlier
\* callers stay as they are, and the caller gets no listener.
LateCall2 ==
    /\ variant = 2
    /\ Len(callers') = Len(callers) + 1
    /\ Has(requestSignals, BatchIdOf(callers'[Len(callers')].url,
                                     callers'[Len(callers')].options))

C18_LateJoinReject ==
    [][LateCall2 =>
        LET new == callers'[Len(callers')]
        IN /\ new.kind = "threw" /\ new.status = "threw"
           /\ ~new.thenL /\ ~new.catchL /\ ~new.abortL
           /\ SubSeq(callers', 1, Len(callers)) = callers
           /\ UNCHANGED <<requestPayload, requestCounter, requestDebounce,
                          requestSignals, timers, fetches, uncaught>>]_vars

C18_Witness ==
    \E c \in Callers :
        /\ variant = 2 /\ callers[c].kind = "threw"
        /\ Has(requestSignals, callers[c].batchId)
        /\ requestCounter[callers[c].batchId].registered = 1

\* ----------------------------------------------------------------- C19
\* C19 (counter bounds): every live entry has registered >= 1 and processed
\* and aborted below registered: the step in which one of them reaches
\* registered removes the entry.
C19_CounterBounds ==
    \A b \in DOMAIN requestCounter :
        /\ requestCounter[b].registered >= 1
        /\ requestCounter[b].processed >= 0
        /\ requestCounter[b].aborted >= 0
        /\ requestCounter[b].processed < requestCounter[b].registered
        /\ requestCounter[b].aborted < requestCounter[b].registered

C19_Witness ==
    \E b \in DOMAIN requestCounter :
        /\ requestCounter[b].registered = 3
        /\ requestCounter[b].processed = 2

\* ----------------------------------------------------------------- C20
\* C20 (dispatch finds its batch): every pending timer is the timer recorded
\* for a batchId that has its payload and counters; so the dispatcher always
\* runs with the entry present and calls fetch with the url and options of
\* the batch's first joiner, never with the '' fallback.
C20_DispatchFindsBatch ==
    /\ [](\A t \in DOMAIN timers :
            LET b == timers[t].batchId
            IN /\ Has(requestPayload, b) /\ Has(requestCounter, b)
               /\ Has(requestDebounce, b) /\ requestDebounce[b] = t)
    /\ [](\A f \in BatchFetches :
            LET first == callers[FetchBatch(f)]
            IN /\ fetches[f].url # ""
               /\ fetches[f].url = first.url
               /\ fetches[f].options.method = first.options.method)

C20_Witness ==
    \E f \in BatchFetches :
        /\ FetchBatch(f) > 1
        /\ fetches[f].timer > FetchBatch(f)
        /\ \E c \in Joiners : c < FetchBatch(f) /\ callers[c].status = "cancelled"

====
